---- MODULE Spec2Model ----
(***************************************************************************)
(* Model of the echoprint-codegen streaming pipeline.                      *)
(*                                                                         *)
(* Part 1: dsp.Writer (dsp/dsp.go), the buffered writer that hands every   *)
(* block to a DSP (Transform) before forwarding it to an io.Writer sink.   *)
(* Part 2: whitening.Whitener.Compute (whitening/whitening.go).            *)
(* Part 3: fingerprint.Fingerprinter.Compute and its emission task.        *)
(*                                                                         *)
(* Bytes that enter the Writer are numbered 1, 2, 3, ... in the order they *)
(* are offered, so that loss, duplication and reordering are visible.      *)
(* The DSP of part 1 is an opaque length-preserving Transform: it maps the *)
(* byte b to -b, so a Transform output is never mistaken for a raw byte.   *)
(***************************************************************************)
EXTENDS Integers, Sequences, FiniteSets, TLC

(* ------------------------------ bounds -------------------------------- *)

\* Capacity of the Writer's buffer, len(b.buf).  dsp.go:9 sets it to 10000;
\* the Writer only ever compares lengths with it, the model scales it down.
size == 2

\* Operations (Write, Flush, ReadFrom) in one run.
MaxOps == 3

\* Sink responses that deviate from "accept everything, no error" in one run.
MaxFaults == 1

\* Part 2: Compute calls it takes to whiten a stream block after block.
NBlocks == 2

\* Part 2: blocks have lpcOrder+1 .. lpcOrder+1+ExtraSamples samples.
ExtraSamples == 1

\* Part 3: blocks given to the Fingerprinter have 0 .. MaxSamples samples.
MaxSamples == 140

\* Part 3: a band of a block holds 0 .. MaxOnsets onsets.
MaxOnsets == 4

\* Part 3: Compute is called up to MaxCalls times on one Fingerprinter.
MaxCalls == 2

(* --------------------------- program constants ------------------------ *)

maxConsecutiveEmptyReads == 100

\* whitening.go:26-28.  alpha is 1/t.
lpcOrder == 40

t == 8

\* The fingerprint package: the taps of the filter c and the bands.
cLen == 128

subbands == 8

\* The rows and columns of the modulation matrices.
mRows == 8

mCols == 8

(* ------------------------------- state -------------------------------- *)

VARIABLES
    buf,              \* Writer.buf: always `size` bytes long
    n,                \* Writer.n: number of buffered bytes
    err,              \* Writer.err: the sticky error, "nil" when none
    plan,             \* the sink's next responses to Write calls
    sinkIsReaderFrom, \* whether the sink also implements io.ReaderFrom
    sinkLog,          \* every call the sink has received
    dspLog,           \* every block handed to DSP.Compute
    accepted,         \* every byte the Writer has accepted (Write's nn, ReadFrom's n)
    fed,              \* number of bytes offered so far (the next byte is fed+1)
    ops,              \* number of operations performed so far
    used,             \* the kinds of operation performed so far
    last,             \* what the last operation was given and what it returned
    inflight,         \* the Write call that is under way, step by step
    stream,           \* part 2: the PCM bytes to whiten
    blockLen,         \* part 2: the number of bytes handed to one Compute call
    arch,             \* part 2: the architecture the program was built for
    whole,            \* part 2: the Whitener given the stream in one Compute call
    split,            \* part 2: the Whitener given the stream block after block
    variant,          \* part 3: which Fingerprinter of the repository is in use
    pcm,              \* part 3: the bytes p given to Fingerprinter.Compute
    onsets,           \* part 3: the number of onsets each band of the block holds
    caller,           \* part 3: the caller of Compute and what it got back
    tasks,            \* part 3: the goroutines started by Compute, in order
    received          \* part 3: the Codes received from the channel Hash

wvars == <<stream, blockLen, arch, whole, split>>

fvars == <<variant, pcm, onsets, caller, tasks, received>>

dvars == <<buf, n, err, plan, sinkIsReaderFrom, sinkLog, dspLog, accepted, fed, ops, used, last,
          inflight>>

vars == <<dvars, wvars, fvars>>

(* ------------------------------ helpers ------------------------------- *)

Min(a, b) == IF a < b THEN a ELSE b

\* Bytes number lo+1 .. lo+k of the input stream.
Fresh(lo, k) == [i \in 1..k |-> lo + i]

\* p[k+1:] for p[k:]: one byte more than was taken is left out.
DropSkipsOne(p, k) == SubSeq(p, k + 2, Len(p))

\* p[k:] of Go
Drop(p, k) == SubSeq(p, k + 1, Len(p))

\* The Writer and its collaborators as one value, threaded through the handlers.
World == [buf |-> buf, n |-> n, err |-> err, plan |-> plan,
          sinkLog |-> sinkLog, dspLog |-> dspLog, whitener |-> whole, arch |-> arch]

\* copy(b.buf[at:], p): returns the new buffer and the number of bytes copied.
GoCopy(b, at, p) ==
    LET c == Min(Len(b) - at, Len(p))
    IN  [buf |-> [i \in 1..Len(b) |-> IF i > at /\ i <= at + c THEN p[i - at] ELSE b[i]],
         n   |-> c]

(* ------------- whitening.Whitener.Compute (whitening.go) --------------- *)

\* Samples are int16 and bytes are 0..255.  The float32 values R[i] and E of
\* Compute are held exactly, as integers counting units of 1/(PerUnit*t), so
\* that 0.001 is t units and multiplying by alpha = 1/t divides evenly; the
\* streams of this model keep them within 32 bits.

\* R[0] = 0.001 (line 49) is one part in PerUnit.
PerUnit == 1000

\* An int value converted to, or computed in, int16: it wraps.
W16(x) == ((x + 32768) % 65536) - 32768

Abs(x) == IF x < 0 THEN 0 - x ELSE x

\* s[i] of Go, the first element having index 0.
At(s, i) == s[i + 1]

\* The sequence s, its elements computed once.
Eager(s) == s \o <<>>

\* The sum of f[lo], ..., f[hi].
RECURSIVE SumOver(_, _, _)
SumOver(f, lo, hi) ==
    IF lo > hi THEN 0
    ELSE IF lo = hi THEN f[lo]
    ELSE LET mid == (lo + hi) \div 2
         IN  SumOver(f, lo, mid) + SumOver(f, mid + 1, hi)

\* binary.Read(buf, binary.LittleEndian, data), line 54: len(p)/2 samples.
Decode(p) == Eager([i \in 1..(Len(p) \div 2) |-> W16(p[2 * i - 1] + 256 * p[2 * i])])

\* binary.Write(o, binary.LittleEndian, out), line 109.
Encode(out) ==
    Eager([i \in 1..(2 * Len(out)) |->
             IF i % 2 = 1 THEN out[(i + 1) \div 2] % 256
             ELSE (out[i \div 2] % 65536) \div 256])

\* Lines 58-61: sum += float32(data[j] * data[j-i]); the product is an int16.
Autocorrelation(data, i) ==
    SumOver([j \in i..(Len(data) - 1) |-> W16(At(data, j) * At(data, j - i))],
            i, Len(data) - 1)

\* Smoothed without line 49: R[0] starts at 0 like the rest of R.
SmoothedUnseeded(data) ==
    Eager([i1 \in 1..(lpcOrder + 1) |->
             (PerUnit * t * Autocorrelation(data, i1 - 1)) \div t])

\* Lines 47-49 and 56-64: R is made anew by every call, R[0] = 0.001 and 0
\* elsewhere, and then R[i] = alpha * (sum - R[i]).  R[i] is At(R, i).
Smoothed(data) ==
    Eager([i1 \in 1..(lpcOrder + 1) |->
             (PerUnit * t * Autocorrelation(data, i1 - 1) - (IF i1 = 1 THEN t ELSE 0)) \div t])

\* The quotient a/b of two floats, cut towards zero.
TruncDiv(a, b) ==
    LET q == Abs(a) \div Abs(b)
    IN  IF (a >= 0) = (b > 0) THEN q ELSE 0 - q

\* int16(num / E), line 76.  E = 0 makes the quotient NaN or an infinity,
\* whose conversion depends on the build: amd64 yields 0 for all of them,
\* arm64 saturates, which leaves -1 in the low 16 bits for +Inf and 0 for
\* -Inf and NaN.  d.neg is the sign of E, also when E is zero.
Int16OfQuotient(num, d, a) ==
    IF d.E # 0 THEN W16(TruncDiv(num, d.E))
    ELSE IF num = 0 THEN 0
    ELSE IF (num > 0) = ~d.neg THEN (IF a = "arm64" THEN 0 - 1 ELSE 0)
    ELSE 0

\* Lines 70-85, one turn of Durbin's recursion.  ai[0] is never used: d.ai
\* holds ai[1..lpcOrder].
DurbinStep(R, d, i, a) ==
    LET sumAlphaR == SumOver([j \in 1..(i - 1) |-> d.ai[j] * At(R, i - j)], 1, i - 1)
        ki        == Int16OfQuotient(At(R, i) - sumAlphaR, d, a)
        shrink    == 1 - W16(ki * ki)
    IN  [ai  |-> Eager([j \in 1..lpcOrder |->
                          IF j = i THEN ki
                          ELSE IF j < i THEN W16(d.ai[j] - ki * d.ai[i - j])
                          ELSE d.ai[j]]),
         E   |-> shrink * d.E,
         neg |-> IF shrink < 0 THEN ~d.neg ELSE d.neg,
         k   |-> Append(d.k, ki),
         div |-> Append(d.div, d.E)]

\* for i := 1; i <= lpcOrder; i++: d.k holds the ki of the turns done, d.div
\* the values E had when line 76 divided by it.  The turns up to turn upto.
RECURSIVE DurbinFrom(_, _, _, _)
DurbinFrom(R, d, a, upto) ==
    IF Len(d.k) >= upto THEN d
    ELSE DurbinFrom(R, DurbinStep(R, d, Len(d.k) + 1, a), a, upto)

\* Lines 67-85: E = R[0], ai all zero, then the turns i = 1..upto.
Durbin(R, a, upto) ==
    DurbinFrom(R, [ai |-> Eager([j \in 1..lpcOrder |-> 0]), E |-> At(R, 0),
                   neg |-> At(R, 0) < 0, k |-> <<>>, div |-> <<>>],
               a, upto)

\* Lines 87-100: the output sample i.  Products and acc are int16.
Filtered(data, ai, X, i) ==
    LET minip == Min(i, lpcOrder)
    IN  W16(At(data, i)
            - SumOver([j \in (i + 1)..lpcOrder |-> W16(ai[j] * At(X, lpcOrder + i - j))],
                      i + 1, lpcOrder)
            - SumOver([j \in 1..minip |-> W16(ai[j] * At(data, i - j))], 1, minip))

\* NewWhitener, lines 37-41.
\* out, pos and panic record what the Whitener has been given and has returned
\* so far; k, R, div, E and ai the ki, the vector R, the divisors E, the last
\* E and the coefficients ai[1..lpcOrder] of its last call.
NewWhitener ==
    [X |-> Eager([i1 \in 1..(lpcOrder + 1) |-> 0]), out |-> <<>>, pos |-> 0, panic |-> FALSE,
     k |-> <<>>, R |-> <<>>, div |-> <<>>, E |-> 0, ai |-> <<>>]

\* Line 77 panicked in the turn after those of d: nothing is returned and
\* the tail is not saved.  E was divided by once more, at line 76.
Panicked(X, R, d) ==
    [panic |-> TRUE, out |-> <<>>, X |-> X, k |-> d.k, R |-> R,
     div |-> Append(d.div, d.E), E |-> d.E, ai |-> d.ai]

\* Lines 87-110 after the recursion ended in d: the block is filtered, its
\* last lpcOrder+1 samples are saved in X, and the output is encoded.
Whitened(X, data, R, d) ==
    [panic |-> FALSE,
     out   |-> Encode(Eager([i1 \in 1..Len(data) |-> Filtered(data, d.ai, X, i1 - 1)])),
     X     |-> Eager([i1 \in 1..(lpcOrder + 1) |->
                        At(data, Len(data) - 1 - lpcOrder + (i1 - 1))]),
     k     |-> d.k, R |-> R, div |-> d.div, E |-> d.E, ai |-> d.ai]

\* Whitener.Compute, lines 44-111, on a Whitener whose tail is X (b.X[i] is
\* At(X, i)).  ai has blockSize elements (line 69): the first turn i of the
\* recursion with i >= blockSize divides by E (line 76) and then panics at
\* ai[i] = ki (line 77), index out of range.  A block of more than lpcOrder
\* samples has no such turn.
Compute(X, p, a) ==
    LET blockSize == Len(p) \div 2
        data      == Decode(p)
        R         == Smoothed(data)
    IN  IF blockSize <= lpcOrder
        THEN Panicked(X, R, Durbin(R, a, IF blockSize = 0 THEN 0 ELSE blockSize - 1))
        ELSE Whitened(X, data, R, Durbin(R, a, lpcOrder))

\* Feed without lines 103-105: the tail X stays what it was.
FeedDropsTail(w, p, a) ==
    LET r == Compute(w.X, p, a)
    IN  [X |-> w.X, out |-> w.out \o r.out, pos |-> w.pos + Len(p), panic |-> r.panic,
         k |-> r.k, R |-> r.R, div |-> r.div, E |-> r.E, ai |-> r.ai]

\* The Whitener w after a call of Compute on p came to r.
Fed(w, p, r) ==
    [X |-> r.X, out |-> w.out \o r.out, pos |-> w.pos + Len(p), panic |-> r.panic,
     k |-> r.k, R |-> r.R, div |-> r.div, E |-> r.E, ai |-> r.ai]

\* b.Compute(p) on the Whitener w.
Feed(w, p, a) == Fed(w, p, Compute(w.X, p, a))

(* --------------------- the Writer and its Transform -------------------- *)

\* DSP.Compute: the Transform of the block p.
dspCompute(p) == [i \in 1..Len(p) |-> 0 - p[i]]

\* The Writer's DSP is a Whitener.
HasWhitener(W) == W.whitener.X # <<>>

\* The Writer's world once its Whitener came to w by computing p, and the
\* block that call returned: what w.out gained.
Computed(W, p, w) ==
    [W   |-> [W EXCEPT !.dspLog = Append(@, p), !.whitener = w],
     out |-> SubSeq(w.out, Len(W.whitener.out) + 1, Len(w.out))]

\* b.dsp.Compute(p) as the Writer calls it: the block is logged.  The DSP is
\* an interface (lines 30-32): the call goes to the Whitener when one was
\* given to NewWriter, and what it returns is the end of the Whitener's out.
CallCompute(W, p) ==
    IF HasWhitener(W)
    THEN Computed(W, p, Feed(W.whitener, p, W.arch))
    ELSE [W |-> [W EXCEPT !.dspLog = Append(@, p)], out |-> dspCompute(p)]

\* b.wr.Write(data): the sink answers with the head of its plan, and accepts
\* everything without error once the plan is used up.  It never reports more
\* bytes than it was given.
SinkWrite(W, data) ==
    LET r == IF W.plan = <<>> THEN [k |-> Len(data), err |-> "nil"] ELSE Head(W.plan)
        k == Min(r.k, Len(data))
    IN  [W   |-> [W EXCEPT !.plan = IF @ = <<>> THEN <<>> ELSE Tail(@),
                           !.sinkLog = Append(@, [via |-> "Write", data |-> data,
                                                  n |-> k, err |-> r.err])],
         n   |-> k,
         err |-> r.err]

Available(W) == Len(W.buf) - W.n

Buffered(W) == W.n

(* ------------------------------- flush -------------------------------- *)

\* flushWrite without the copy of lines 89-91: the remainder is not moved.
flushWriteNoShift(W) ==
    LET c == CallCompute(W, SubSeq(W.buf, 1, W.n))
        s == SinkWrite(c.W, c.out)
        e == IF s.n < W.n /\ s.err = "nil" THEN "ErrShortWrite" ELSE s.err
    IN  IF e # "nil"
        THEN [W |-> [s.W EXCEPT !.n = W.n - s.n, !.err = e], err |-> e]
        ELSE [W |-> [s.W EXCEPT !.n = 0], err |-> "nil"]

\* flushWrite without lines 85-87: a short write without error goes unnoticed.
flushWriteNoShortCheck(W) ==
    LET c == CallCompute(W, SubSeq(W.buf, 1, W.n))
        s == SinkWrite(c.W, c.out)
        e == s.err
    IN  IF e # "nil"
        THEN [W |-> [s.W EXCEPT
                       !.buf = IF s.n > 0 /\ s.n < W.n
                               THEN GoCopy(W.buf, 0, SubSeq(W.buf, s.n + 1, W.n)).buf
                               ELSE @,
                       !.n = W.n - s.n,
                       !.err = e],
              err |-> e]
        ELSE [W |-> [s.W EXCEPT !.n = 0], err |-> "nil"]

\* flushWrite with b.n += n for b.n -= n at line 92.
flushWriteCountsUp(W) ==
    LET c == CallCompute(W, SubSeq(W.buf, 1, W.n))
        s == SinkWrite(c.W, c.out)
        e == IF s.n < W.n /\ s.err = "nil" THEN "ErrShortWrite" ELSE s.err
    IN  IF e # "nil"
        THEN [W |-> [s.W EXCEPT
                       !.buf = IF s.n > 0 /\ s.n < W.n
                               THEN GoCopy(W.buf, 0, SubSeq(W.buf, s.n + 1, W.n)).buf
                               ELSE @,
                       !.n = W.n + s.n,
                       !.err = e],
              err |-> e]
        ELSE [W |-> [s.W EXCEPT !.n = 0], err |-> "nil"]

\* flushWrite with b.n = 0 on every path: the remainder is counted out.
flushWriteDropsRemainder(W) ==
    LET c == CallCompute(W, SubSeq(W.buf, 1, W.n))
        s == SinkWrite(c.W, c.out)
        e == IF s.n < W.n /\ s.err = "nil" THEN "ErrShortWrite" ELSE s.err
    IN  IF e # "nil"
        THEN [W |-> [s.W EXCEPT !.n = 0, !.err = e], err |-> e]
        ELSE [W |-> [s.W EXCEPT !.n = 0], err |-> "nil"]

\* b.wr.Write(b.dsp.Compute(...)), lines 59 and 84: the sink is given what
\* Compute returned in c.
WriteComputed(c) == SinkWrite(c.W, c.out)

\* Lines 85-97 of flush, the sink having answered s at line 84: what the
\* sink did not take is moved to the front of the buffer.
flushWritten(W, s) ==
    LET e == IF s.n < W.n /\ s.err = "nil" THEN "ErrShortWrite" ELSE s.err
    IN  IF e # "nil"
        THEN [W |-> [s.W EXCEPT
                       !.buf = IF s.n > 0 /\ s.n < W.n
                               THEN GoCopy(W.buf, 0, SubSeq(W.buf, s.n + 1, W.n)).buf
                               ELSE @,
                       !.n = W.n - s.n,
                       !.err = e],
              err |-> e]
        ELSE [W |-> [s.W EXCEPT !.n = 0], err |-> "nil"]

\* Lines 84-97 of flush: the buffered bytes go through the Transform to the
\* sink.
flushWrite(W) == flushWritten(W, WriteComputed(CallCompute(W, SubSeq(W.buf, 1, W.n))))

\* flush without lines 81-83: an empty buffer is flushed like any other.
flushWritesEmpty(W) ==
    IF W.err # "nil" THEN [W |-> W, err |-> W.err]
    ELSE flushWrite(W)

\* flush without lines 78-80: the recorded error is not looked at.
flushIgnoresError(W) ==
    IF W.n = 0 THEN [W |-> W, err |-> "nil"] ELSE flushWrite(W)

\* Writer.flush, lines 77-98.
flush(W) ==
    IF W.err # "nil" THEN [W |-> W, err |-> W.err]
    ELSE IF W.n = 0 THEN [W |-> W, err |-> "nil"]
    ELSE flushWrite(W)

Flush(W) == flush(W)

(* ------------------------------- Write -------------------------------- *)

\* The large write taking the direct path whatever is buffered.
DirectAlways(W) == TRUE

\* Line 55: the large write goes straight to the sink only from an empty buffer.
Direct(W) == Buffered(W) = 0

\* Line 53: for len(p) > b.Available() && b.err == nil.
WriteGoesOn(W, p) == Len(p) > Available(W) /\ W.err = "nil"

\* Line 59 done, the sink having answered s: n, b.err = b.wr.Write(...), and
\* lines 65-66.
DirectTurn(s, p, nn) ==
    [W |-> [s.W EXCEPT !.err = s.err], p |-> Drop(p, s.n), nn |-> nn + s.n]

\* Lines 54-66: one turn of the loop.
WriteTurn(W, p, nn) ==
    IF Direct(W)
    THEN \* Large write, empty buffer: n, b.err = b.wr.Write(b.dsp.Compute(p))
         DirectTurn(WriteComputed(CallCompute(W, p)), p, nn)
    ELSE LET c == GoCopy(W.buf, W.n, p)
             f == flush([W EXCEPT !.buf = c.buf, !.n = @ + c.n])
         IN  [W |-> f.W, p |-> Drop(p, c.n), nn |-> nn + c.n]

\* Lines 68-74: after the loop.
WriteEnd(W, p, nn) ==
    IF W.err # "nil"
    THEN [W |-> W, n |-> nn, err |-> W.err]
    ELSE LET c == GoCopy(W.buf, W.n, p)
         IN  [W |-> [W EXCEPT !.buf = c.buf, !.n = @ + c.n],
              n |-> nn + c.n, err |-> "nil"]

\* Lines 53-74: x holds b, what is left of p, and nn.
RECURSIVE WriteLoop(_)
WriteLoop(x) ==
    IF WriteGoesOn(x.W, x.p)
    THEN WriteLoop(WriteTurn(x.W, x.p, x.nn))
    ELSE WriteEnd(x.W, x.p, x.nn)

Write(W, p) == WriteLoop([W |-> W, p |-> p, nn |-> 0])

(* ------------------------------ ReadFrom ------------------------------ *)

\* A source is the list of its read results, each [m, err, times]: m bytes
\* and the error reported with them; times > 1 only stands for that many
\* consecutive reads returning (0, nil).  A source that is used up reports
\* end-of-stream.
IsEmptyRead(h) == h.m = 0 /\ h.err = "nil"

\* r.Read(b.buf[b.n:]) when the next read is not an empty one: m is cut to the
\* slice's length, the rest is delivered by the next read, the error with the
\* last of the bytes.
SourceRead(src, avail) ==
    IF src = <<>> THEN [src |-> src, m |-> 0, err |-> "EOF"]
    ELSE LET h == Head(src)
             m == Min(h.m, avail)
         IN  IF m < h.m
             THEN [src |-> <<[h EXCEPT !.m = h.m - m]>> \o Tail(src), m |-> m, err |-> "nil"]
             ELSE [src |-> Tail(src), m |-> m, err |-> h.err]

\* Number of reads at the head of src that return (0, nil).
RECURSIVE LeadingEmpty(_)
LeadingEmpty(src) ==
    IF src = <<>> \/ ~IsEmptyRead(Head(src)) THEN 0
    ELSE Head(src).times + LeadingEmpty(Tail(src))

\* src after k of its leading empty reads were performed.
RECURSIVE SkipEmpty(_, _)
SkipEmpty(src, k) ==
    IF k = 0 THEN src
    ELSE IF Head(src).times <= k THEN SkipEmpty(Tail(src), k - Head(src).times)
    ELSE <<[Head(src) EXCEPT !.times = @ - k]>> \o Tail(src)

\* nr := 0; for nr < maxConsecutiveEmptyReads { m, err = r.Read(b.buf[b.n:]);
\*                                              if m != 0 || err != nil { break }; nr++ }
\* The loop performs the empty reads at the head of the source, at most
\* maxConsecutiveEmptyReads of them, and then, below that limit, the read
\* that makes progress.  ev collects the calls ReadFrom makes, in order, k
\* consecutive empty reads as one entry with times = k.
EmptyReads(src, avail, ev) ==
    LET k == Min(LeadingEmpty(src), maxConsecutiveEmptyReads)
        e == IF k = 0 THEN ev
             ELSE Append(ev, [call |-> "Read", m |-> 0, err |-> "nil", times |-> k])
    IN  IF k = maxConsecutiveEmptyReads
        THEN [src |-> SkipEmpty(src, k), m |-> 0, err |-> "nil", nr |-> k, ev |-> e]
        ELSE LET r == SourceRead(SkipEmpty(src, k), avail)
             IN  [src |-> r.src, m |-> r.m, err |-> r.err, nr |-> k,
                  ev |-> Append(e, [call |-> "Read", m |-> r.m, err |-> r.err, times |-> 1])]

\* The end of ReadFrom flushing at end-of-stream whatever the buffer holds.
ReadFromEndFlushesAlways(W, total, e, ev) ==
    IF e = "EOF"
    THEN LET f == flush(W)
         IN  [W |-> f.W, n |-> total, err |-> f.err,
              ev |-> Append(ev, [call |-> "flush", m |-> W.n, err |-> f.err, times |-> 1])]
    ELSE [W |-> W, n |-> total, err |-> e, ev |-> ev]

\* The end of ReadFrom recording the source's error in b.err.
ReadFromEndRecordsError(W, total, e, ev) ==
    IF e = "EOF"
    THEN IF Available(W) = 0
         THEN LET f == flush(W)
              IN  [W |-> f.W, n |-> total, err |-> f.err,
                   ev |-> Append(ev, [call |-> "flush", m |-> W.n, err |-> f.err, times |-> 1])]
         ELSE [W |-> W, n |-> total, err |-> "nil", ev |-> ev]
    ELSE [W |-> [W EXCEPT !.err = e], n |-> total, err |-> e, ev |-> ev]

\* Lines 134-142: the end of ReadFrom, after the loop was left with err.
ReadFromEnd(W, total, e, ev) ==
    IF e = "EOF"
    THEN IF Available(W) = 0
         THEN LET f == flush(W)
              IN  [W |-> f.W, n |-> total, err |-> f.err,
                   ev |-> Append(ev, [call |-> "flush", m |-> W.n, err |-> f.err, times |-> 1])]
         ELSE [W |-> W, n |-> total, err |-> "nil", ev |-> ev]
    ELSE [W |-> W, n |-> total, err |-> e, ev |-> ev]

\* Lines 111-133: the loop of ReadFrom.  fed0 + total bytes of the stream
\* have been consumed when an iteration starts.
RECURSIVE ReadLoop(_, _, _, _, _)
ReadLoop(W, src, total, ev, fed0) ==
    LET full == Available(W) = 0
        f    == IF full THEN flush(W) ELSE [W |-> W, err |-> "nil"]
        ev1  == IF full THEN Append(ev, [call |-> "flush", m |-> W.n, err |-> f.err, times |-> 1]) ELSE ev
    IN  IF f.err # "nil"
        THEN [W |-> f.W, n |-> total, err |-> f.err, ev |-> ev1]
        ELSE LET r == EmptyReads(src, Available(f.W), ev1)
             IN  IF r.nr = maxConsecutiveEmptyReads
                 THEN [W |-> f.W, n |-> total, err |-> "ErrNoProgress", ev |-> r.ev]
                 ELSE LET c  == GoCopy(f.W.buf, f.W.n, Fresh(fed0 + total, r.m))
                          W2 == [f.W EXCEPT !.buf = c.buf, !.n = @ + r.m]
                      IN  IF r.err # "nil"
                          THEN ReadFromEnd(W2, total + r.m, r.err, r.ev)
                          ELSE ReadLoop(W2, r.src, total + r.m, r.ev, fed0)

\* w.ReadFrom(r) of a sink that implements io.ReaderFrom: the sink drains the
\* source itself, up to end-of-stream or the source's first error.
RECURSIVE DrainBusy(_, _)
DrainBusy(src, cnt) ==
    IF src = <<>> THEN [n |-> cnt, err |-> "nil"]
    ELSE LET h == Head(src)
         IN  IF h.err = "nil" THEN DrainBusy(Tail(src), cnt + h.m)
             ELSE [n |-> cnt + h.m, err |-> IF h.err = "EOF" THEN "nil" ELSE h.err]

\* Reads that return (0, nil) give the sink nothing and do not stop it.
IsBusyRead(h) == ~IsEmptyRead(h)

Drain(src, cnt) == DrainBusy(SelectSeq(src, IsBusyRead), cnt)

\* The reads the draining sink makes: every read result of the source up to
\* the first error, or all of them and the end-of-stream that follows.
RECURSIVE DrainReads(_)
DrainReads(src) ==
    IF src = <<>> THEN <<[call |-> "Read", m |-> 0, err |-> "EOF", times |-> 1]>>
    ELSE LET h == Head(src)
             e == [call |-> "Read", m |-> h.m, err |-> h.err, times |-> h.times]
         IN  IF h.err = "nil" THEN <<e>> \o DrainReads(Tail(src)) ELSE <<e>>

SinkReadFrom(W, src, fed0) ==
    LET d == Drain(src, 0)
    IN  [W   |-> [W EXCEPT !.sinkLog = Append(@, [via |-> "ReadFrom", data |-> Fresh(fed0, d.n),
                                                  n |-> d.n, err |-> d.err])],
         n   |-> d.n,
         err |-> d.err,
         ev  |-> DrainReads(src)]

\* Writer.ReadFrom.  isRF: the sink implements io.ReaderFrom.
ReadFrom(W, src, fed0, isRF) ==
    IF Buffered(W) = 0 /\ isRF
    THEN SinkReadFrom(W, src, fed0)
    ELSE ReadLoop(W, src, 0, <<>>, fed0)

(* ---------------------------- environment ----------------------------- *)

\* The longest Write: enough to fill a partly filled buffer and still leave
\* more than a buffer for the direct path.
MaxWrite == 2 * size

\* A sink response: accept min(k, len(data)) bytes and report err.
SinkResponses == [k : {0, 1, MaxWrite}, err : {"nil", "ErrSink"}]

IsFault(r) == r.k < MaxWrite \/ r.err # "nil"

RECURSIVE SeqsOfLen(_, _)
SeqsOfLen(S, k) ==
    IF k = 0 THEN {<<>>} ELSE {<<x>> \o s : x \in S, s \in SeqsOfLen(S, k - 1)}

\* The sink's behaviour in one run: at most MaxFaults responses that are not
\* "everything, nil", the last of them at call MaxFaults + 1 at the latest.
Plans ==
    {pl \in UNION {SeqsOfLen(SinkResponses, k) : k \in 0..(MaxFaults + 1)} :
        /\ Cardinality({i \in 1..Len(pl) : IsFault(pl[i])}) <= MaxFaults
        /\ pl # <<>> => IsFault(pl[Len(pl)])}

Empties(k) == <<[m |-> 0, err |-> "nil", times |-> k]>>

Data(m) == <<[m |-> m, err |-> "nil", times |-> 1]>>

DataEOF(m) == <<[m |-> m, err |-> "EOF", times |-> 1]>>

Fail == <<[m |-> 0, err |-> "ErrSrc", times |-> 1]>>

\* One read short of the limit without progress, then one byte.
AlmostStuck == Empties(maxConsecutiveEmptyReads - 1) \o Data(1)

Stuck == Empties(maxConsecutiveEmptyReads)

\* The sources handed to ReadFrom, as lists of read results; every source
\* reports end-of-stream once its list is used up.
Sources ==
    {<<>>, Data(1), Data(size), DataEOF(1), DataEOF(size), Fail, AlmostStuck, Stuck}
    \cup {a \o b : a \in {Data(size), AlmostStuck}, b \in {Data(1), Fail, AlmostStuck, Stuck}}

(* ------------------------------ actions ------------------------------- *)

\* What the caller and the collaborators saw of one operation.
OpRecord(op, p, r, ev, delegated) ==
    [op |-> op, p |-> p, n |-> r.n, err |-> r.err, ev |-> ev, delegated |-> delegated,
     errBefore |-> err, nBefore |-> n, bufBefore |-> buf, sinkBefore |-> Len(sinkLog),
     dspBefore |-> Len(dspLog), fedBefore |-> fed, prevOp |-> last.op, prevErr |-> last.err]

\* No Whitener is at work while the Writer is exercised.
NoWhitening ==
    /\ stream = <<>>
    /\ blockLen = 0
    /\ arch = "amd64"
    /\ whole = [X |-> <<>>, out |-> <<>>, pos |-> 0, panic |-> FALSE, k |-> <<>>,
                R |-> <<>>, div |-> <<>>, E |-> 0, ai |-> <<>>]
    /\ split = [X |-> <<>>, out |-> <<>>, pos |-> 0, panic |-> FALSE, k |-> <<>>,
                R |-> <<>>, div |-> <<>>, E |-> 0, ai |-> <<>>]

\* No Fingerprinter is at work while the Writer or the Whitener is exercised.
NoFingerprint ==
    /\ variant = "none"
    /\ pcm = <<>>
    /\ onsets = <<>>
    /\ caller = [pc |-> "idle", ret |-> <<>>, panic |-> "none", numFrames |-> 0,
                 lastRead |-> 0 - 1, fold |-> <<>>]
    /\ tasks = <<>>
    /\ received = <<>>

\* NewWriter, lines 35-41, over a sink of any behaviour.
WriterInit ==
    /\ buf = [i \in 1..size |-> 0]
    /\ n = 0
    /\ err = "nil"
    /\ plan \in Plans
    /\ sinkIsReaderFrom \in BOOLEAN
    /\ sinkLog = <<>>
    /\ dspLog = <<>>
    /\ accepted = <<>>
    /\ fed = 0
    /\ ops = 0
    /\ used = {}
    /\ last = [op |-> "NewWriter", p |-> <<>>, n |-> 0, err |-> "nil", ev |-> <<>>,
               delegated |-> FALSE, errBefore |-> "nil", nBefore |-> 0,
               bufBefore |-> [i \in 1..size |-> 0], sinkBefore |-> 0, dspBefore |-> 0,
               fedBefore |-> 0, prevOp |-> "none", prevErr |-> "nil"]
    /\ inflight = [pc |-> "idle", p |-> <<>>, nn |-> 0, ret |-> [n |-> 0, err |-> "nil"]]

Init == NoWhitening /\ NoFingerprint /\ WriterInit

\* The Writer's fields and its collaborators after a handler returned W.
Commit(W) ==
    /\ buf' = W.buf
    /\ n' = W.n
    /\ err' = W.err
    /\ plan' = W.plan
    /\ sinkLog' = W.sinkLog
    /\ dspLog' = W.dspLog
    /\ ops' = ops + 1
    /\ UNCHANGED <<sinkIsReaderFrom, inflight, wvars, fvars>>

DoWrite ==
    \E len \in 0..MaxWrite :
        LET p == Fresh(fed, len)
            r == Write(World, p)
        IN  /\ ops < MaxOps
            /\ Commit(r.W)
            /\ accepted' = accepted \o SubSeq(p, 1, r.n)
            /\ fed' = fed + len
            /\ used' = used \cup {"Write"}
            /\ last' = OpRecord("Write", p, r, <<>>, FALSE)

DoFlush ==
    LET f == Flush(World)
    IN  /\ ops < MaxOps
        /\ Commit(f.W)
        /\ used' = used \cup {"Flush"}
        /\ last' = OpRecord("Flush", <<>>, [n |-> 0, err |-> f.err], <<>>, FALSE)
        /\ UNCHANGED <<accepted, fed>>

DoReadFrom ==
    \E src \in Sources :
        LET r == ReadFrom(World, src, fed, sinkIsReaderFrom)
        IN  /\ ops < MaxOps
            /\ Commit(r.W)
            /\ accepted' = accepted \o Fresh(fed, r.n)
            /\ fed' = fed + r.n
            /\ used' = used \cup {"ReadFrom"}
            /\ last' = OpRecord("ReadFrom", src, r, r.ev,
                                Buffered(World) = 0 /\ sinkIsReaderFrom)

Next == DoWrite \/ DoFlush \/ DoReadFrom

Spec == Init /\ [][Next]_vars

(* ----------------------- Write, one step at a time --------------------- *)

\* Writer.Write taken step by step: the call (line 52), the test of the loop
\* (line 53), a turn of the loop (lines 54-66) and the return (lines 68-74).
\* The sink chooses its answer when it is called.  The logs of the sink and
\* of the Transform are not kept here: nothing bounds the calls of a Write.

\* b.Write(p) is called with the next len bytes of the stream.
WriteCall ==
    \E len \in 0..MaxWrite :
        /\ inflight.pc \in {"idle", "returned"}
        /\ ops < MaxOps
        /\ inflight' = [pc |-> "test", p |-> Fresh(fed, len), nn |-> 0,
                        ret |-> [n |-> 0, err |-> "nil"]]
        /\ fed' = fed + len
        /\ ops' = ops + 1
        /\ UNCHANGED <<buf, n, err, plan, sinkIsReaderFrom, sinkLog, dspLog, accepted,
                       used, last, wvars, fvars>>

\* Line 53.
LoopTest ==
    /\ inflight.pc = "test"
    /\ inflight' = [inflight EXCEPT
                      !.pc = IF WriteGoesOn(World, inflight.p) THEN "body" ELSE "exit"]
    /\ UNCHANGED <<buf, n, err, plan, sinkIsReaderFrom, sinkLog, dspLog, accepted, fed,
                   ops, used, last, wvars, fvars>>

\* Lines 54-66, the sink answering r to the write of this turn.
LoopBody ==
    \E r \in SinkResponses :
        LET x == WriteTurn([World EXCEPT !.plan = <<r>>], inflight.p, inflight.nn)
        IN  /\ inflight.pc = "body"
            /\ buf' = x.W.buf
            /\ n' = x.W.n
            /\ err' = x.W.err
            /\ inflight' = [inflight EXCEPT !.pc = "test", !.p = x.p, !.nn = x.nn]
            /\ UNCHANGED <<plan, sinkIsReaderFrom, sinkLog, dspLog, accepted, fed, ops,
                           used, last, wvars, fvars>>

\* Lines 68-74.
WriteReturn ==
    LET r == WriteEnd(World, inflight.p, inflight.nn)
    IN  /\ inflight.pc = "exit"
        /\ buf' = r.W.buf
        /\ n' = r.W.n
        /\ err' = r.W.err
        /\ inflight' = [inflight EXCEPT !.pc = "returned", !.p = <<>>,
                                        !.ret = [n |-> r.n, err |-> r.err]]
        /\ UNCHANGED <<plan, sinkIsReaderFrom, sinkLog, dspLog, accepted, fed, ops,
                       used, last, wvars, fvars>>

\* A new Writer over a sink that answers as it pleases.
InitL ==
    /\ NoWhitening
    /\ NoFingerprint
    /\ WriterInit
    /\ plan = <<>>
    /\ sinkIsReaderFrom = FALSE

NextL == WriteCall \/ LoopTest \/ LoopBody \/ WriteReturn

\* The goroutine that called Write keeps running: a step of the call that
\* can be taken is taken.
SpecL ==
    /\ InitL
    /\ [][NextL]_vars
    /\ WF_vars(LoopTest)
    /\ WF_vars(LoopBody)
    /\ WF_vars(WriteReturn)

(* --------------------- the Writer over a Whitener ---------------------- *)

\* dsp.NewWriter(sink, whitening.NewWhitener()) and its Write and Flush.  The
\* sink takes every byte it is given.  The buffer has room for the block of
\* lpcOrder+1+ExtraSamples samples, and the caller writes silence.

\* The capacity of this Writer's buffer, in bytes.
whitenedSize == 2 * (lpcOrder + 1 + ExtraSamples)

\* The lengths of the Writes: nothing, one byte, the lengths around the
\* smallest block Compute takes, up to one byte more than the buffer holds,
\* and two buffers.
WhitenedLengths ==
    {0, 1} \cup ((2 * (lpcOrder + 1) - 1)..(whitenedSize + 1)) \cup {2 * whitenedSize}

Silence(len) == [i \in 1..len |-> 0]

InitT ==
    /\ NoFingerprint
    /\ stream = <<>>
    /\ blockLen = 0
    /\ arch = "amd64"
    /\ whole = NewWhitener
    /\ split = NewWhitener
    /\ buf = Silence(whitenedSize)
    /\ n = 0
    /\ err = "nil"
    /\ plan = <<>>
    /\ sinkIsReaderFrom = FALSE
    /\ sinkLog = <<>>
    /\ dspLog = <<>>
    /\ accepted = <<>>
    /\ fed = 0
    /\ ops = 0
    /\ used = {}
    /\ last = [op |-> "NewWriter", p |-> <<>>, n |-> 0, err |-> "nil", ev |-> <<>>,
               delegated |-> FALSE, errBefore |-> "nil", nBefore |-> 0,
               bufBefore |-> Silence(whitenedSize), sinkBefore |-> 0, dspBefore |-> 0,
               fedBefore |-> 0, prevOp |-> "none", prevErr |-> "nil"]
    /\ inflight = [pc |-> "idle", p |-> <<>>, nn |-> 0, ret |-> [n |-> 0, err |-> "nil"]]

\* The Writer's fields, its Whitener and its collaborators after a handler
\* returned W.  A panic of Compute (whitening.go:77) is not recovered by the
\* Writer: the call does not return, and the fields are those Compute found.
CommitT(W) ==
    /\ ops' = ops + 1
    /\ whole' = W.whitener
    /\ dspLog' = W.dspLog
    /\ IF W.whitener.panic
       THEN UNCHANGED <<buf, n, err, plan, sinkLog>>
       ELSE /\ buf' = W.buf
            /\ n' = W.n
            /\ err' = W.err
            /\ plan' = W.plan
            /\ sinkLog' = W.sinkLog
    /\ UNCHANGED <<sinkIsReaderFrom, inflight, stream, blockLen, arch, split, fvars>>

\* What the caller got: the result, or the panic.
OutcomeT(W, r) == IF W.whitener.panic THEN [n |-> 0, err |-> "panic"] ELSE r

DoWriteT ==
    \E len \in WhitenedLengths :
        LET p == Silence(len)
            r == Write(World, p)
            o == OutcomeT(r.W, [n |-> r.n, err |-> r.err])
        IN  /\ ops < MaxOps
            /\ ~whole.panic
            /\ CommitT(r.W)
            /\ accepted' = accepted \o SubSeq(p, 1, o.n)
            /\ fed' = fed + len
            /\ used' = used \cup {"Write"}
            /\ last' = OpRecord("Write", p, o, <<>>, FALSE)

DoFlushT ==
    LET f == Flush(World)
        o == OutcomeT(f.W, [n |-> 0, err |-> f.err])
    IN  /\ ops < MaxOps
        /\ ~whole.panic
        /\ CommitT(f.W)
        /\ used' = used \cup {"Flush"}
        /\ last' = OpRecord("Flush", <<>>, o, <<>>, FALSE)
        /\ UNCHANGED <<accepted, fed>>

NextT == DoWriteT \/ DoFlushT

SpecT == InitT /\ [][NextT]_vars

(* ====================================================================== *)
(*                     Properties of the dsp.Writer                       *)
(* ====================================================================== *)

\* The bytes the sink has taken, in order.
RECURSIVE SunkOf(_)
SunkOf(log) ==
    IF log = <<>> THEN <<>> ELSE SubSeq(Head(log).data, 1, Head(log).n) \o SunkOf(Tail(log))

Sunk == SunkOf(sinkLog)

\* The sink calls made by the last operation.
LastSinkCalls == SubSeq(sinkLog, last.sinkBefore + 1, Len(sinkLog))

IsReadCall(e) == e.call = "Read"

\* The reads of the source made during the last ReadFrom, in order.
LastReads == SelectSeq(last.ev, IsReadCall)

SourceFailures == {"ErrSrc", "ErrNoProgress"}

C2_RetriedByNextFlush ==
    [][(err = "ErrShortWrite" /\ n > 0 /\ last'.op = "Flush")
          => /\ Len(sinkLog') = Len(sinkLog) + 1
             /\ sinkLog'[Len(sinkLog')].data = dspCompute(SubSeq(buf, 1, n))]_vars

\* C2 as amended: when a flush of the buffered bytes ends with the sink
\* taking k < n of them without error, the remainder bytes[k:n] is kept
\* byte for byte at the front of the buffer (Buffered() = n-k); it is not
\* retried: the short-write error is sticky, the next Flush returns it
\* without calling the sink, and no later operation hands the remainder to
\* the sink or disturbs it.
C2_RemainderKeptNotRetried ==
    [][/\ (err = "nil" /\ err' = "ErrShortWrite")
            => LET call == sinkLog'[Len(sinkLog')]
                   blk  == dspLog'[Len(dspLog')]
               IN  /\ call.data = dspCompute(blk)
                   /\ call.n < Len(blk)
                   /\ n' = Len(blk) - call.n
                   /\ SubSeq(buf', 1, n') = SubSeq(blk, call.n + 1, Len(blk))
       /\ err = "ErrShortWrite"
            => /\ err' = err
               /\ sinkLog' = sinkLog
               /\ n' >= n
               /\ SubSeq(buf', 1, n) = SubSeq(buf, 1, n)
               /\ last'.op = "Flush" => last'.err = "ErrShortWrite" /\ n' = n]_vars

\* A Flush called after a short write that took one of two buffered bytes: it
\* fails, and the second byte of the stream is still at the front of the buffer.
C2_Witness ==
    /\ last.op = "Flush"
    /\ last.errBefore = "ErrShortWrite"
    /\ last.err = "ErrShortWrite"
    /\ n = 1
    /\ buf[1] = 2
    /\ Sunk = <<0 - 1>>

\* C3: Flush guarantee.  After Write calls followed by a Flush that returns
\* nil, nothing is buffered and the sink has taken exactly the Transform's
\* output of every byte those Writes accepted, in the order written.
C3_FlushGuarantee ==
    (last.op = "Flush" /\ last.err = "nil" /\ used \subseteq {"Write", "Flush"})
        => /\ n = 0
           /\ Sunk = dspCompute(accepted)

\* A Flush that returns nil and empties the buffer after Writes that had
\* already made the Writer flush once.
C3_Witness ==
    /\ last.op = "Flush"
    /\ last.err = "nil"
    /\ used = {"Write", "Flush"}
    /\ last.nBefore > 0
    /\ Len(sinkLog) > 1
    /\ Len(accepted) > size

\* C4 as claimed: whatever reaches the sink through Write, Flush or ReadFrom
\* is output of the Transform.
C4_SinkGetsOnlyTransformOutput ==
    \A i \in 1..Len(sinkLog) :
        \E blk \in {[j \in 1..Len(sinkLog[i].data) |-> 0 - sinkLog[i].data[j]]} :
            /\ \A j \in 1..Len(blk) : blk[j] \in 1..fed
            /\ sinkLog[i].data = dspCompute(blk)

\* C5 as claimed: with a sticky error recorded, ReadFrom returns that error,
\* reads nothing from the source and gives nothing to the sink.
C5_ReadFromAfterError ==
    [][(err # "nil" /\ last'.op = "ReadFrom")
          => /\ last'.err = err
             /\ last'.n = 0
             /\ SelectSeq(last'.ev, IsReadCall) = <<>>
             /\ sinkLog' = sinkLog]_vars

\* Number of consecutive reads returning (0, nil) that end with entry i of rs.
RECURSIVE EmptyRunEndingAt(_, _)
EmptyRunEndingAt(rs, i) ==
    IF i = 0 \/ ~IsEmptyRead(rs[i]) THEN 0
    ELSE rs[i].times + EmptyRunEndingAt(rs, i - 1)

\* C6 as claimed: ReadFrom returns the no-progress error exactly when the
\* source has returned (0, nil) on maxConsecutiveEmptyReads consecutive reads
\* during the call.
C6_NoProgressGuard ==
    last.op = "ReadFrom"
        => (last.err = "ErrNoProgress"
                <=> \E i \in 1..Len(LastReads) :
                        EmptyRunEndingAt(LastReads, i) >= maxConsecutiveEmptyReads)

\* C7 as claimed: after ReadFrom returned a source error or the no-progress
\* error, the next operation returns that error.
C7_SourceFailureTerminal ==
    (last.prevOp = "ReadFrom" /\ last.prevErr \in SourceFailures)
        => last.err = last.prevErr

\* C7 as amended: source failures are returned by the ReadFrom that met them
\* and are not recorded on the Writer: its sticky error is what it was
\* before the call, and the Write or Flush that follows does not return the
\* source failure; it returns the sticky sink error if one is recorded and
\* works normally otherwise.
C7_SourceFailureNotRecorded ==
    /\ (last.op = "ReadFrom" /\ last.err \in SourceFailures)
          => err = last.errBefore
    /\ (last.prevOp = "ReadFrom" /\ last.prevErr \in SourceFailures
            /\ last.op \in {"Write", "Flush"})
          => /\ last.err # last.prevErr
             /\ last.err = (IF last.errBefore # "nil" THEN last.errBefore ELSE err)

\* A Write that is accepted in full right after a ReadFrom that reported no
\* progress.
C7_Witness ==
    /\ last.op = "Write"
    /\ last.prevOp = "ReadFrom"
    /\ last.prevErr = "ErrNoProgress"
    /\ last.err = "nil"
    /\ last.n = Len(last.p)
    /\ last.n > 0

\* Buffered() after the calls ev of a ReadFrom that fills the Writer's
\* buffer, starting from k buffered bytes.
RECURSIVE BufferedAfter(_, _)
BufferedAfter(ev, k) ==
    IF ev = <<>> THEN k
    ELSE LET h == Head(ev)
         IN  IF h.call = "Read" THEN BufferedAfter(Tail(ev), k + h.m)
             ELSE BufferedAfter(Tail(ev), IF h.err = "nil" THEN 0 ELSE k)

\* The source reported end-of-stream during the last ReadFrom.
SawEOF == last.op = "ReadFrom"
          /\ LastReads # <<>> /\ LastReads[Len(LastReads)].err = "EOF"

\* The calls of the last ReadFrom up to the read that reported end-of-stream.
UpToEOF ==
    LET lastRead == CHOOSE i \in 1..Len(last.ev) :
                        /\ last.ev[i].call = "Read"
                        /\ \A j \in (i + 1)..Len(last.ev) : last.ev[j].call # "Read"
    IN  SubSeq(last.ev, 1, lastRead)

\* Buffered() when end-of-stream was reported: reads made by the sink do not
\* touch the Writer's buffer.
BufferedAtEOF ==
    IF last.delegated THEN last.nBefore ELSE BufferedAfter(UpToEOF, last.nBefore)

\* C8 as claimed: end-of-stream with a full buffer runs one final flush whose
\* result is returned; end-of-stream with room left returns nil without
\* writing to the sink, and the bytes read stay buffered.
C8_EndOfStream ==
    SawEOF =>
        IF BufferedAtEOF = size
        THEN /\ Len(last.ev) = Len(UpToEOF) + 1
             /\ last.err = last.ev[Len(last.ev)].err
        ELSE /\ last.err = "nil"
             /\ \A i \in 1..Len(LastSinkCalls) : LastSinkCalls[i].data = <<>>
             /\ n = last.nBefore + last.n
             /\ last.n > 0 => n > 0

\* C9: Large-write fast path.  A Write of more than a buffer into an empty
\* buffer hands the whole of p to the Transform and the result to the sink,
\* leaving the buffer alone; if the sink takes everything, Write returns
\* (len(p), nil) with nothing buffered.  A Write that does not fit into a
\* buffer that is not empty first fills the buffer to capacity and flushes
\* it; only bytes of p behind those are written directly afterwards.
C9_LargeWrite ==
    (last.op = "Write" /\ last.errBefore = "nil" /\ Len(last.p) > size - last.nBefore)
        => LET calls == LastSinkCalls
               room  == size - last.nBefore
           IN  /\ calls # <<>>
               /\ IF last.nBefore = 0
                  THEN /\ calls[1].data = dspCompute(last.p)
                       /\ dspLog[last.dspBefore + 1] = last.p
                       /\ (calls[1].n = Len(last.p) /\ calls[1].err = "nil")
                             => /\ last.n = Len(last.p)
                                /\ last.err = "nil"
                                /\ n = 0
                                /\ buf = last.bufBefore
                                /\ Len(calls) = 1
                  ELSE /\ calls[1].data
                            = dspCompute(SubSeq(last.bufBefore, 1, last.nBefore)
                                         \o SubSeq(last.p, 1, room))
                       /\ Len(calls[1].data) = size
                       /\ \A i \in 2..Len(calls) :
                             \E k \in room..Len(last.p) :
                                 calls[i].data = dspCompute(Drop(last.p, k))

\* A Write into a buffer holding one byte, long enough to fill the buffer
\* and still leave more than a buffer: one flush of a full buffer, then one
\* direct write, both taken in full.
C9_Witness ==
    /\ last.op = "Write"
    /\ last.errBefore = "nil"
    /\ last.nBefore = 1
    /\ Len(last.p) = MaxWrite
    /\ Len(LastSinkCalls) = 2
    /\ last.err = "nil"
    /\ last.n = MaxWrite
    /\ n = 0

\* The step ends with flush's write to the sink (a block of at most size
\* bytes; the direct write of line 59 carries more), and the sink took fewer
\* bytes than it was handed without reporting an error.
ShortFlushWrite ==
    /\ Len(sinkLog') > Len(sinkLog)
    /\ LET call == sinkLog'[Len(sinkLog')]
       IN  /\ call.via = "Write"
           /\ Len(call.data) <= size
           /\ call.err = "nil"
           /\ call.n < Len(call.data)

\* C20: state after a short write.  When flush hands the n buffered bytes to
\* the sink and the sink takes k < n of them without error, the operation
\* returns the short-write error, Buffered() is n-k and the buffer starts
\* with the bytes k..n-1 of what was buffered.
C20_StateAfterShortWrite ==
    [][ShortFlushWrite
          => LET call == sinkLog'[Len(sinkLog')]
                 blk  == dspLog'[Len(dspLog')]
             IN  /\ call.data = dspCompute(blk)
                 /\ last'.err = "ErrShortWrite"
                 /\ err' = "ErrShortWrite"
                 /\ n' = Len(blk) - call.n
                 /\ SubSeq(buf', 1, n') = SubSeq(blk, call.n + 1, Len(blk))]_vars

\* A Flush of two buffered bytes of which the sink took one without error:
\* one byte is buffered, the second of the two.
C20_Witness ==
    /\ last.op = "Flush"
    /\ last.errBefore = "nil"
    /\ last.nBefore = 2
    /\ Len(LastSinkCalls) = 1
    /\ LastSinkCalls[1].n = 1
    /\ LastSinkCalls[1].err = "nil"
    /\ last.err = "ErrShortWrite"
    /\ n = 1
    /\ buf[1] = last.bufBefore[2]

\* The bytes the sink has taken, as they were when the Writer accepted
\* them: a Write of the sink is given a block's Transform, which dspCompute
\* undoes (it turns byte b into -b), and a delegated ReadFrom is given the
\* bytes as they are.
RECURSIVE UntransformedOf(_)
UntransformedOf(log) ==
    IF log = <<>> THEN <<>>
    ELSE LET call  == Head(log)
             taken == SubSeq(call.data, 1, call.n)
         IN  (IF call.via = "Write" THEN dspCompute(taken) ELSE taken)
               \o UntransformedOf(Tail(log))

\* C29: byte conservation and order.  After any sequence of Write, Flush and
\* ReadFrom calls, failed ones included, the bytes the sink has taken
\* followed by the Buffered() bytes at the front of the buffer are the bytes
\* accepted so far (those counted by Write and ReadFrom), in order, none
\* missing and none twice.
C29_ByteConservation ==
    UntransformedOf(sinkLog) \o SubSeq(buf, 1, Buffered(World)) = accepted

\* C29 witness: the three operations have been used, the last one has failed
\* after the sink took only a part of what it was given, and bytes are both
\* in the sink and in the buffer.
C29_Witness ==
    /\ used = {"Write", "Flush", "ReadFrom"}
    /\ last.err # "nil"
    /\ Len(LastSinkCalls) > 0
    /\ LastSinkCalls[Len(LastSinkCalls)].n < Len(LastSinkCalls[Len(LastSinkCalls)].data)
    /\ Len(Sunk) > 0
    /\ Buffered(World) > 0
    /\ Len(accepted) = Len(Sunk) + Buffered(World)

\* C30 as claimed: Write terminates.  Every call of Write returns, whatever
\* the length of p and whatever the sink answers to its writes, the answer
\* "0 bytes, no error" to a large write included.
C30_WriteTerminates ==
    (inflight.pc = "test") ~> (inflight.pc = "returned")

\* The blocks handed to the Transform by the last operation.
LastBlocks == SubSeq(dspLog, last.dspBefore + 1, Len(dspLog))

\* C32: full blocks in ReadFrom.  A ReadFrom that goes through the Writer's
\* buffer flushes only a buffer that is full, so every block it hands to the
\* Transform has exactly the capacity's length, and every read of the source
\* is given a slice of at least one byte.
C32_FullBlocksInReadFrom ==
    (last.op = "ReadFrom" /\ ~last.delegated) =>
        /\ \A i \in 1..Len(LastBlocks) : Len(LastBlocks[i]) = size
        /\ \A k \in 1..Len(last.ev) :
              LET before == BufferedAfter(SubSeq(last.ev, 1, k - 1), last.nBefore)
              IN  IF last.ev[k].call = "flush"
                  THEN before = size /\ last.ev[k].m = size
                  ELSE size - before > 0

\* C32 witness: a ReadFrom has found the buffer partly filled, has filled
\* and flushed it through the Transform, has read on, and has ended at
\* end-of-stream with a buffer that is not full and not flushed.
C32_Witness ==
    /\ last.op = "ReadFrom"
    /\ ~last.delegated
    /\ last.errBefore = "nil"
    /\ last.nBefore > 0
    /\ last.nBefore < size
    /\ Len(LastBlocks) = 1
    /\ last.err = "nil"
    /\ Buffered(World) > 0
    /\ Buffered(World) < size
    /\ last.ev[Len(last.ev)].call = "Read"
    /\ last.ev[Len(last.ev)].err = "EOF"

\* C33: an empty flush is a no-op.  Flush on a Writer with nothing buffered
\* and no error recorded returns nil, calls neither the Transform nor the
\* sink and leaves the Writer as it was; no Flush hands the Transform an
\* empty block.
C33_EmptyFlushNoOp ==
    last.op = "Flush" =>
        /\ \A i \in 1..Len(LastBlocks) : LastBlocks[i] # <<>>
        /\ (last.nBefore = 0 /\ last.errBefore = "nil")
             => /\ last.err = "nil"
                /\ Len(dspLog) = last.dspBefore
                /\ Len(sinkLog) = last.sinkBefore
                /\ buf = last.bufBefore
                /\ n = 0
                /\ err = "nil"

\* C33 witness: a Flush of an empty, error-free Writer that has been in use
\* (the sink holds bytes of an earlier operation).
C33_Witness ==
    /\ last.op = "Flush"
    /\ last.nBefore = 0
    /\ last.errBefore = "nil"
    /\ last.err = "nil"
    /\ last.prevOp \in {"Write", "ReadFrom"}
    /\ Len(Sunk) > 0

\* C31 as claimed: no spurious short write.  With the Whitener as the
\* Transform and a sink that takes every byte it is given, every Write and
\* Flush that returns returns nil, whatever the number of buffered bytes;
\* ErrShortWrite is returned only when a sink write of the call took fewer
\* bytes than it was given.
C31_NoSpuriousShortWrite ==
    (last.op \in {"Write", "Flush"} /\ last.err # "panic") =>
        /\ last.err = "nil"
        /\ last.err = "ErrShortWrite"
             => \E i \in 1..Len(LastSinkCalls) :
                   LastSinkCalls[i].n < Len(LastSinkCalls[i].data)

\* C21: capacity accounting.  After any sequence of Write, Flush and
\* ReadFrom calls the buffer has its fixed capacity, 0 <= Buffered() <=
\* capacity and Available() + Buffered() = capacity.
C21_CapacityAccounting ==
    /\ Len(buf) = size
    /\ 0 <= Buffered(World)
    /\ Buffered(World) <= size
    /\ 0 <= Available(World)
    /\ Available(World) + Buffered(World) = size

\* The three operations have been used, the last one has failed, and the
\* buffer is full.
C21_Witness ==
    /\ used = {"Write", "Flush", "ReadFrom"}
    /\ last.err # "nil"
    /\ Buffered(World) = size
    /\ Available(World) = 0

(* ====================================================================== *)
(*              Part 2: whitening.Whitener (whitening.go)                 *)
(* ====================================================================== *)

(* --------------------- whitening a stream, two ways -------------------- *)

\* Samples of the streams: silence, a small and a larger value, and a value
\* whose square does not fit an int16.
SampleValues == {0, 3, 128, 0 - 256}

\* A stream of len samples, silent except for the three samples of burst
\* that start at index at.
BurstStream(len, at, burst) ==
    [i1 \in 1..len |-> IF i1 - 1 \in at..(at + 2) THEN burst[i1 - at] ELSE 0]

\* The streams of bs-sample blocks: the burst ends the first block, or lies
\* across the boundary of the first and the second, or starts the second
\* right after a first block whose last sample but one is not silent.
StreamsOf(bs) ==
    {BurstStream(NBlocks * bs, at, <<b1, b2, b3>>) :
        at \in {bs - 3, bs - 1}, b1 \in SampleValues, b2 \in SampleValues, b3 \in SampleValues}
    \cup
    {[BurstStream(NBlocks * bs, bs, <<128, b2, b3>>) EXCEPT ![bs - 1] = 3] :
        b2 \in SampleValues, b3 \in SampleValues}

BlockSizes == (lpcOrder + 1)..(lpcOrder + 1 + ExtraSamples)

InitW ==
    /\ WriterInit
    /\ NoFingerprint
    /\ plan = <<>>
    /\ sinkIsReaderFrom = FALSE
    /\ arch \in {"amd64", "arm64"}
    /\ \E bs \in BlockSizes :
          /\ blockLen = 2 * bs
          /\ \E samples \in StreamsOf(bs) : stream = Encode(samples)
    /\ whole = NewWhitener
    /\ split = NewWhitener

\* One Compute call on the whole stream.
ComputeWhole ==
    /\ whole.pos = 0
    /\ whole' = Feed(whole, stream, arch)
    /\ UNCHANGED <<dvars, fvars, stream, blockLen, arch, split>>

\* One Compute call on the next block of the stream.
ComputeBlock ==
    /\ split.pos < Len(stream)
    /\ ~split.panic
    /\ split' = Feed(split, SubSeq(stream, split.pos + 1, split.pos + blockLen), arch)
    /\ UNCHANGED <<dvars, fvars, stream, blockLen, arch, whole>>

NextW == ComputeWhole \/ ComputeBlock

SpecW == InitW /\ [][NextW]_vars

(* ------------------------ whitening one block -------------------------- *)

\* The blocks of len samples: silence that ends with the last len samples of
\* a burst.
BlocksOf(len) ==
    {BurstStream(len, len - 3, <<b1, b2, b3>>) :
        b1 \in SampleValues, b2 \in SampleValues, b3 \in SampleValues}

\* Numbers of samples of a block: none, one, the most that is too few for
\* the recursion, and the sizes of BlockSizes.
AnySizes == {0, 1, lpcOrder} \cup BlockSizes

\* A fresh Whitener and the one block it is to be given.
InitB ==
    /\ WriterInit
    /\ NoFingerprint
    /\ plan = <<>>
    /\ sinkIsReaderFrom = FALSE
    /\ arch \in {"amd64", "arm64"}
    /\ \E bs \in AnySizes : \E samples \in BlocksOf(bs) : stream = Encode(samples)
    /\ blockLen = Len(stream)
    /\ whole = NewWhitener
    /\ split = NewWhitener

SpecB == InitB /\ [][ComputeWhole]_vars

(* ====================================================================== *)
(*          Part 3: fingerprint.Fingerprinter (package fingerprint)       *)
(* ====================================================================== *)

\* The repository holds two Fingerprinters.  The "emitter" (lines 72-192 of
\* the fingerprint file) has the channel Hash: its Compute starts an emission
\* task and returns p.  The "analyzer" (lines 256-325) has no channel: its
\* Compute analyses the subbands itself.

\* (numSamples - cLen + 1) / subbands, lines 92 and 293: Go's division cuts
\* towards zero.
numFramesOf(numSamples) == TruncDiv(numSamples - cLen + 1, subbands)

\* Lines 104-109 and 302-309: y[i] = z[i], then y[i] += z[i+mCols*j] for
\* j = 1..mRows-1.  The indices of the z summed into y[i].
Folded(i) == {i} \cup {i + mCols * j : j \in 1..(mRows - 1)}

\* subbandAnalysis, lines 87-121; lines 290-318 repeat it in the analyzer's
\* Compute.  What becomes of the call for numSamples samples: numFrames = 0
\* panics at line 94; a negative numFrames passes that test and reaches
\* mat64.NewDense(subbands, numFrames, nil), which cannot make a matrix of a
\* negative size and panics; otherwise frame t reads the samples
\* t*subbands+i for i < cLen (line 99).  lastRead is the largest index read.
\* fold[m+1] is the set of the i whose z[i] is summed into y[m].
subbandAnalysis(numSamples) ==
    LET numFrames == numFramesOf(numSamples)
    IN  IF numFrames = 0
        THEN [panic |-> "No frames to compute", numFrames |-> 0, lastRead |-> 0 - 1,
              fold |-> <<>>]
        ELSE IF numFrames < 0
        THEN [panic |-> "NewDense", numFrames |-> numFrames, lastRead |-> 0 - 1,
              fold |-> <<>>]
        ELSE [panic |-> "none", numFrames |-> numFrames,
              lastRead |-> (numFrames - 1) * subbands + cLen - 1,
              fold |-> Eager([m1 \in 1..mCols |-> Folded(m1 - 1)])]

\* The analyzer's Compute, lines 281-325: out is made of numSamples zeros
\* (line 285), never written, and encoded as the result (lines 321-324).
AnalyzerCompute(p) ==
    LET numSamples == Len(p) \div 2
        a          == subbandAnalysis(numSamples)
    IN  [pc        |-> IF a.panic = "none" THEN "returned" ELSE "panic",
         ret       |-> IF a.panic = "none"
                       THEN Encode(Eager([i1 \in 1..numSamples |-> 0]))
                       ELSE <<>>,
         panic     |-> a.panic,
         numFrames |-> a.numFrames,
         lastRead  |-> a.lastRead,
         fold      |-> a.fold]

\* adaptativeOnsets, lines 194-206: the body is a comment and the function
\* returns 0.  out and onsetCounterForBand are passed by value: the caller's
\* pointers are after the call what they were before it.
adaptativeOnsets(out, onsetCounterForBand) ==
    [out |-> out, onsetCounterForBand |-> onsetCounterForBand]

\* Lines 207-216.
quantizedTimeForFrameDelta(f) == 0

quantizedTimeForFrameAbsolute(f) == 0

hashFunc(t0, t1, band) == 0

\* Lines 145-158: the number of pairs built for the anchor onset of a band
\* with c onsets.
nhashes(c, onset) ==
    IF onset = c - 3 THEN 1 ELSE IF onset = c - 4 THEN 3 ELSE 6

\* Lines 176-184: the Codes sent for one anchor, one for each k = 0..5.
\* band, onset and k tell where the Code comes from; they are not sent.
AnchorCodes(band, onset) ==
    [k1 \in 1..6 |-> [Time  |-> quantizedTimeForFrameAbsolute(onset),
                      Hash  |-> hashFunc(0, 0, band),
                      band  |-> band,
                      onset |-> onset,
                      k     |-> k1 - 1]]

\* Lines 141-186: the Codes of a band with c onsets, from anchor onset on.
RECURSIVE BandCodes(_, _, _)
BandCodes(band, c, onset) ==
    IF c <= 2 \/ onset >= c - 2 THEN <<>>
    ELSE AnchorCodes(band, onset) \o BandCodes(band, c, onset + 1)

\* A panic of a goroutine that nothing recovers ends the program.
Crashed == \E i \in 1..Len(tasks) : tasks[i].pc = "panic"

\* Fingerprinter.Compute is called with pcm, for the first time or after an
\* earlier call has returned.  The emitter (lines 125-132) decodes p and
\* starts one more task, whose out and onsetCounterForBand are nil pointers
\* (lines 133 and 136) and which has sent nothing; the analyzer runs to its
\* end.
FCompute ==
    /\ caller.pc \in {"idle", "returned"}
    /\ variant # "none"
    /\ ~Crashed
    /\ IF variant = "analyzer"
       THEN /\ caller.pc = "idle"
            /\ caller' = AnalyzerCompute(pcm)
            /\ UNCHANGED tasks
       ELSE /\ Len(tasks) < MaxCalls
            /\ caller' = [caller EXCEPT !.pc = "called"]
            /\ tasks' = Append(tasks, [pc |-> "start", band |-> 0, out |-> "nil",
                                       onsetCounterForBand |-> "nil", pending |-> <<>>,
                                       sent |-> <<>>])
    /\ UNCHANGED <<dvars, wvars, variant, pcm, onsets, received>>

\* The emitter's Compute returns p, line 191.
FReturn ==
    /\ caller.pc = "called"
    /\ ~Crashed
    /\ caller' = [caller EXCEPT !.pc = "returned", !.ret = pcm]
    /\ UNCHANGED <<dvars, wvars, variant, pcm, onsets, tasks, received>>

\* Task i runs lines 133-139.
TaskStart(i) ==
    /\ tasks[i].pc = "start"
    /\ ~Crashed
    /\ LET r == adaptativeOnsets(tasks[i].out, tasks[i].onsetCounterForBand)
       IN  tasks' = [tasks EXCEPT ![i] = [@ EXCEPT !.pc = "band", !.out = r.out,
                                            !.onsetCounterForBand = r.onsetCounterForBand]]
    /\ UNCHANGED <<dvars, wvars, variant, pcm, onsets, caller, received>>

\* Task i at the head of the loop of line 140.  Line 141 reads
\* (*onsetCounterForBand)[band]: a nil pointer makes it panic.  Otherwise the
\* task goes on to send the Codes of the band, or to the next band.
TaskBand(i) ==
    /\ tasks[i].pc = "band"
    /\ ~Crashed
    /\ LET task  == tasks[i]
           codes == BandCodes(task.band, task.onsetCounterForBand[task.band], 0)
       IN  tasks' = [tasks EXCEPT ![i] =
              IF task.band >= subbands THEN [task EXCEPT !.pc = "done"]
              ELSE IF task.onsetCounterForBand = "nil" THEN [task EXCEPT !.pc = "panic"]
              ELSE IF codes = <<>> THEN [task EXCEPT !.band = @ + 1]
              ELSE [task EXCEPT !.pc = "send", !.pending = codes]]
    /\ UNCHANGED <<dvars, wvars, variant, pcm, onsets, caller, received>>

\* Blocks of 0..MaxSamples samples: silence, or every byte 1.
PcmBlocks ==
    {[i \in 1..(2 * numSamples) |-> fill] : numSamples \in 0..MaxSamples, fill \in {0, 1}}

\* What an onset detector finds in a block: per band, a number of onsets.
\* One band, the first or the last, holds up to MaxOnsets of them.
OnsetCounts ==
    {[band \in 0..(subbands - 1) |-> IF band = loud THEN c ELSE 0] :
        loud \in {0, subbands - 1}, c \in 0..MaxOnsets}

\* A Fingerprinter of either kind (NewFingerprinter, lines 81-85 and
\* 265-278) and the block it is to be given.
InitF ==
    /\ WriterInit
    /\ plan = <<>>
    /\ sinkIsReaderFrom = FALSE
    /\ NoWhitening
    /\ variant \in {"emitter", "analyzer"}
    /\ pcm \in PcmBlocks
    /\ onsets \in OnsetCounts
    /\ caller = [pc |-> "idle", ret |-> <<>>, panic |-> "none", numFrames |-> 0,
                 lastRead |-> 0 - 1, fold |-> <<>>]
    /\ tasks = <<>>
    /\ received = <<>>

NextF ==
    \/ FCompute
    \/ FReturn
    \/ \E i \in 1..Len(tasks) : TaskStart(i)
    \/ \E i \in 1..Len(tasks) : TaskBand(i)

SpecF == InitF /\ [][NextF]_vars

(* ====================================================================== *)
(*                      Properties of the Whitener                        *)
(* ====================================================================== *)

\* Both Whiteners have been given the whole stream.
BothDone == stream # <<>> /\ whole.pos = Len(stream) /\ split.pos = Len(stream)

\* C10 as claimed: whitening continuity.  The stream whitened by one
\* Compute call and the stream whitened block after block by a fresh
\* Whitener, for blocks of an even number of bytes, 2*(lpcOrder+1) at
\* least, come out as the same bytes.
C10_WhiteningContinuity ==
    BothDone => split.out = whole.out

\* The Whitener has been given its block (the empty block moves no position:
\* its call shows in R).
Called == whole.R # <<>>

\* C11 as claimed: block-size agnostic Transform.  Compute returns normally
\* for every block of an even number of bytes, blocks of fewer than
\* lpcOrder+1 samples and the empty block included.
C11_BlockSizeAgnostic ==
    ~whole.panic

\* C12 as claimed: Durbin degeneracy is handled.  No division of line 76 has
\* a zero E as its divisor.
C12_NoZeroDivisor ==
    \A i \in 1..Len(whole.div) : whole.div[i] # 0

\* C13: R[0] is never exactly zero after the smoothing update of a block,
\* whatever the block holds, so the first divisor E = R[0] is not zero.
C13_R0NeverZero ==
    Called => /\ At(whole.R, 0) # 0
              /\ whole.div[1] = At(whole.R, 0)

\* C13 witness: a block of silence has been through Compute, and its R[0] is
\* what the seed alone leaves.
C13_Witness ==
    /\ Called
    /\ ~whole.panic
    /\ \A i \in 1..Len(stream) : stream[i] = 0
    /\ At(whole.R, 0) = 0 - 1

\* The values of E in the order the recursion had them.
ErrorsOf(w) == Append(w.div, w.E)

\* C14 as claimed: Durbin stability.  When no E of the recursion is zero,
\* every update leaves an E that is at most the one before and has its sign.
C14_DurbinStability ==
    LET Es == ErrorsOf(whole)
    IN  (Called /\ \A i \in 1..Len(Es) : Es[i] # 0)
        => \A i \in 2..Len(Es) : /\ Es[i] <= Es[i - 1]
                                  /\ (Es[i] > 0) = (Es[i - 1] > 0)

\* What a new Whitener's R[i] is claimed to start from: 0.001 for R[0], in
\* units of 1/(PerUnit*t), and 0 otherwise.
SeedOf(i) == IF i = 0 THEN t ELSE 0

\* The R[i] the Whitener w has from its last call, the seed before any call.
PreviousR(w, i) == IF w.R = <<>> THEN SeedOf(i) ELSE At(w.R, i)

\* C22 as claimed: persistent smoothed autocorrelation.  Every Compute call
\* of a Whitener leaves R[i] = R_prev[i] + alpha*(acc_i - R_prev[i]) for every
\* lag i, where R_prev is what the call before it has left (the seed before
\* the first) and acc_i is what the call has accumulated for the lag.
C22_PersistentR ==
    [][(split'.pos > split.pos /\ ~split'.panic)
       => LET data == Decode(SubSeq(stream, split.pos + 1, split'.pos))
          IN  \A i \in 0..lpcOrder :
                 LET prev == PreviousR(split, i)
                     diff == PerUnit * t * Autocorrelation(data, i) - prev
                 IN  /\ diff % t = 0
                     /\ At(split'.R, i) = prev + diff \div t]_vars

\* The integer sum of sample[j]*sample[j-i] for j = i..N-1.
ExactSum(data, i) ==
    SumOver([j \in i..(Len(data) - 1) |-> At(data, j) * At(data, j - i)],
            i, Len(data) - 1)

\* C23 as claimed: exact autocorrelation accumulation.  The R[i] a call
\* leaves is alpha*(sum_i - seed_i) for the integer sum_i of the products
\* sample[j]*sample[j-i], for every lag i, and the lag-0 accumulation is not
\* negative (R[0] is not below -alpha*0.001).
C23_ExactAccumulation ==
    Called => /\ \A i \in 0..lpcOrder :
                    At(whole.R, i)
                      = (PerUnit * t * ExactSum(Decode(stream), i) - SeedOf(i)) \div t
              /\ At(whole.R, 0) >= 0 - 1

\* The output sample i of a block data that follows the block prev, when
\* the coefficient ai[j] multiplies the stream sample j positions before
\* sample i: data[i-j] for j <= i and prev[N_prev + i - j] for j > i.
HistoryFiltered(data, ai, prev, i) ==
    LET minip == Min(i, lpcOrder)
    IN  W16(At(data, i)
            - SumOver([j \in (i + 1)..lpcOrder |-> W16(ai[j] * At(prev, Len(prev) + i - j))],
                      i + 1, lpcOrder)
            - SumOver([j \in 1..minip |-> W16(ai[j] * At(data, i - j))], 1, minip))

\* C24 as claimed: cross-block filter history.  A Compute call on a block
\* that follows another returns, for every index i, the sample filtered with
\* the call's coefficients over the stream samples 1..lpcOrder positions
\* before it, those of the previous block included.
C24_CrossBlockHistory ==
    [][(split.pos > 0 /\ split'.pos > split.pos /\ ~split'.panic)
       => LET prev == Decode(SubSeq(stream, split.pos - blockLen + 1, split.pos))
              data == Decode(SubSeq(stream, split.pos + 1, split'.pos))
          IN  Decode(SubSeq(split'.out, split.pos + 1, split'.pos))
                = [i1 \in 1..Len(data) |->
                     HistoryFiltered(data, split'.ai, prev, i1 - 1)]]_vars

\* The last lpcOrder+1 samples of a block.
TailOf(data) ==
    [i1 \in 1..(lpcOrder + 1) |-> At(data, Len(data) - 1 - lpcOrder + (i1 - 1))]

\* The samples a call returns for the block data when its coefficients are
\* ai and the tail it reads is X.
OutputWith(data, ai, X) ==
    [i1 \in 1..Len(data) |-> Filtered(data, ai, X, i1 - 1)]

\* C25: tail persistence.  A Compute call on a block of at least lpcOrder+1
\* samples leaves in X the block's last lpcOrder+1 samples in order; the call
\* that follows on the same Whitener filters with that X; and no call changes
\* the bytes it is given.
C25_TailPersistence ==
    [][(split'.pos > split.pos /\ ~split'.panic)
       => LET data == Decode(SubSeq(stream, split.pos + 1, split'.pos))
          IN  /\ split'.X = TailOf(data)
              /\ stream' = stream
              /\ split.pos > 0
                   => LET prev == Decode(SubSeq(stream, split.pos - blockLen + 1, split.pos))
                      IN  Decode(SubSeq(split'.out, split.pos + 1, split'.pos))
                            = OutputWith(data, split'.ai, TailOf(prev))]_vars

\* C25 witness: the second block has been through Compute, its X is the
\* second block's tail and not the first's, and what it returned is not what
\* a silent tail would have given.
C25_Witness ==
    /\ stream # <<>>
    /\ split.pos = Len(stream)
    /\ split.pos = 2 * blockLen
    /\ ~split.panic
    /\ LET prev == Decode(SubSeq(stream, 1, blockLen))
           data == Decode(SubSeq(stream, blockLen + 1, 2 * blockLen))
       IN  /\ split.X = TailOf(data)
           /\ TailOf(data) # TailOf(prev)
           /\ Decode(SubSeq(split.out, blockLen + 1, 2 * blockLen))
                # OutputWith(data, split.ai, NewWhitener.X)

(* ====================================================================== *)
(*                    Properties of the Fingerprinter                     *)
(* ====================================================================== *)

\* The call of Compute has ended, by a return or by a panic.
CallEnded == caller.pc \in {"returned", "panic"}

\* C15 as claimed: fingerprint pass-through.  Compute returns, and what it
\* returns is exactly the bytes it was given; no receive from the channel is
\* needed for it (none has happened).
C15_PassThrough ==
    CallEnded => /\ caller.pc = "returned"
                 /\ caller.ret = pcm

\* C16 as claimed: emission task completion.  No task aborts, and a task
\* that has ended has been through all the bands.
C16_EmissionCompletes ==
    \A i \in 1..Len(tasks) :
        /\ tasks[i].pc # "panic"
        /\ tasks[i].pc = "done" => tasks[i].band = subbands

\* The emission task i is over.
TaskEnded(i) == tasks[i].pc \in {"done", "panic"}

\* The Codes received that come from the band.
CodesOfBand(band) == SelectSeq(received, LAMBDA code : code.band = band)

\* The number of pairs of an anchor o in a band of c onsets.
FeaturesOf(c, o) == IF o = c - 3 THEN 1 ELSE IF o = c - 4 THEN 3 ELSE 6

\* C17 as claimed: one Code per feature.  When the task is over, each anchor
\* o of a band with c onsets has had 1 Code sent if o = c-3, 3 if o = c-4 and
\* 6 otherwise.
C17_OneCodePerFeature ==
    \A i \in 1..Len(tasks) : TaskEnded(i) =>
        \A band \in 0..(subbands - 1) : \A o \in 0..(onsets[band] - 3) :
            LET sent == SelectSeq(CodesOfBand(band), LAMBDA code : code.onset = o)
            IN  Len(sent) = FeaturesOf(onsets[band], o)

\* C18 as claimed: anchor selection.  When the task is over, the Codes of a
\* band with c >= 3 onsets come from the anchors 0..c-3, all of them and in
\* ascending order, and a band with fewer onsets has no Code.
C18_AnchorSelection ==
    \A i \in 1..Len(tasks) : TaskEnded(i) =>
        \A band \in 0..(subbands - 1) :
            LET got == CodesOfBand(band)
            IN  /\ {got[j].onset : j \in 1..Len(got)} = 0..(onsets[band] - 3)
                /\ \A j \in 2..Len(got) : got[j - 1].onset <= got[j].onset

\* C19 as claimed: insufficient samples.  Subband analysis of a block of
\* fewer than cLen+subbands-1 samples fails with "No frames to compute"; of
\* a longer block it makes (N - (cLen-1)) div subbands >= 1 frames, reading
\* samples below N only.
C19_InsufficientSamples ==
    (variant = "analyzer" /\ CallEnded) =>
        LET N == Len(pcm) \div 2
        IN  IF N < cLen + subbands - 1
            THEN caller.panic = "No frames to compute"
            ELSE /\ caller.panic = "none"
                 /\ caller.numFrames = (N - (cLen - 1)) \div subbands
                 /\ caller.numFrames >= 1
                 /\ caller.lastRead < N

\* C26 as claimed: the subband fold covers the whole window.  In every frame
\* y[m] is the sum of the cLen/subbands = 16 entries z[m + subbands*r],
\* r = 0..15, for m = 0..subbands-1, and every one of the cLen products
\* z[0..cLen-1] is summed into exactly one y[m].
C26_FoldCoversWindow ==
    (variant = "analyzer" /\ caller.pc = "returned") =>
        /\ \A m \in 0..(subbands - 1) :
              At(caller.fold, m)
                = {m + subbands * r : r \in 0..(cLen \div subbands - 1)}
        /\ \A i \in 0..(cLen - 1) :
              Cardinality({m \in 0..(subbands - 1) : i \in At(caller.fold, m)}) = 1

\* The Codes of the bands band..subbands-1 of a block, in ascending band and,
\* within a band, ascending anchor order.
RECURSIVE CodesInOrder(_)
CodesInOrder(band) ==
    IF band >= subbands THEN <<>>
    ELSE BandCodes(band, onsets[band], 0) \o CodesInOrder(band + 1)

\* C27 as claimed: no ordering across invocations, ordering within one.  The
\* tasks of the calls of one Fingerprinter run side by side, and a task that
\* is over has sent the Codes of its block in ascending band, then ascending
\* anchor order.
C27_OrderWithinInvocation ==
    \A i \in 1..Len(tasks) :
        TaskEnded(i) => tasks[i].sent = CodesInOrder(0)

\* The block yields at least one Code: a band has more than two onsets.
YieldsCode == \E band \in 0..(subbands - 1) : onsets[band] > 2

\* C28 as claimed: stalled consumer.  While nothing receives from the
\* channel, the task of every call whose block yields a Code is never over:
\* once it has reached its first send it stays there, one such task for each
\* call made.
C28_StalledConsumer ==
    (received = <<>> /\ YieldsCode) =>
        \A i \in 1..Len(tasks) :
            /\ ~TaskEnded(i)
            /\ tasks[i].pc = "send" => tasks[i].sent = <<>>

====
